---- MODULE Spec2Model ----
(***************************************************************************)
(* A model of glumpy/gloo/shader.py: the Shader object (source text, GPU   *)
(* handle, compilation), its GLSL error parsing and display, the comment   *)
(* stripper and the uniform / attribute extraction.                        *)
(*                                                                         *)
(* Text is a sequence of one-character strings.  The regular expressions   *)
(* of the source are kept as expressions and run by a backtracking matcher *)
(* that returns every way a pattern can match, in the order the `re'       *)
(* module tries them; the first is the match `re' reports.                 *)
(***************************************************************************)
EXTENDS Integers, Sequences, FiniteSets, TLC

VARIABLES
    code,       \* Shader._code: the source text, or NoCode
    source,     \* Shader._source: '<string>', a file name, or NoCode
    handle,     \* Shader._handle: the GL shader name, <= 0 when none
    need_update,\* Shader._need_update
    gl_live,    \* GL side: shader names created and not deleted
    gl_made,    \* GL side: every shader name glCreateShader has returned
    gl_calls,   \* GL calls made by the last operation, in order
    op,         \* the last operation applied
    arg,        \* the argument of the last pure operation
    result      \* what the last operation returned or raised

vars == <<code, source, handle, need_update, gl_live, gl_made, gl_calls, op, arg, result>>

-----------------------------------------------------------------------------
(* Characters and the classes \s, \w, \d of `re' on the model's alphabet.  *)

Digits == {"0", "1", "2", "3", "4", "5", "6", "7", "8", "9"}

Letters == {"a", "b", "c", "d", "e", "f", "g", "h", "i", "j", "k", "l", "m",
            "n", "o", "p", "q", "r", "s", "t", "u", "v", "w", "x", "y", "z",
            "A", "B", "C", "D", "E", "F", "G", "H", "I", "J", "K", "L", "M",
            "N", "O", "P", "Q", "R", "S", "T", "U", "V", "W", "X", "Y", "Z"}

WordChars == Letters \cup Digits \cup {"_"}

SpaceChars == {" ", "\t", "\n", "\r", "\f"}

-----------------------------------------------------------------------------
(* Regular expressions: class, negated class, concatenation, alternation,  *)
(* repetition (greedy or lazy), capturing group, and $ under re.MULTILINE. *)

Set(S) == [k |-> "set", cs |-> S]
NSet(S) == [k |-> "nset", cs |-> S]
Lit(c) == Set({c})
Cat(xs) == [k |-> "cat", xs |-> xs]
Alt(xs) == [k |-> "alt", xs |-> xs]
Rep(x, lo, hi, inf, greedy) ==
    [k |-> "rep", x |-> x, lo |-> lo, hi |-> hi, inf |-> inf, greedy |-> greedy]
Grp(id, x) == [k |-> "grp", id |-> id, x |-> x]
Eol == [k |-> "eol"]
Word(w) == Cat([i \in DOMAIN w |-> Lit(w[i])])
Star(x) == Rep(x, 0, 0, TRUE, TRUE)
Plus(x) == Rep(x, 1, 1, TRUE, TRUE)
LazyStar(x) == Rep(x, 0, 0, TRUE, FALSE)
Opt(x) == Rep(x, 0, 1, FALSE, TRUE)
AtMost(n, count) == ~n.inf /\ count >= n.hi

Groups == {"1", "2", "3", "4", "type", "names", "name", "size"}
NoSpan == <<-1, -1>>
NoCaps == [g \in Groups |-> NoSpan]

(* A matcher state is [e, c]: e characters of s consumed, c the captures.  *)
(* MNode gives, in the order backtracking tries them, the states in which  *)
(* node n can end when started in state st.                                *)
RECURSIVE MNode(_, _, _), MStep(_, _, _), MList(_, _, _, _), MAlt(_, _, _, _), MRep(_, _, _, _)

MStep(n, s, sts) ==
    IF sts = <<>> THEN <<>>
    ELSE MNode(n, s, Head(sts)) \o MStep(n, s, Tail(sts))

MList(xs, i, s, sts) ==
    IF i > Len(xs) \/ sts = <<>> THEN sts
    ELSE MList(xs, i + 1, s, MStep(xs[i], s, sts))

MAlt(xs, i, s, st) ==
    IF i > Len(xs) THEN <<>>
    ELSE MNode(xs[i], s, st) \o MAlt(xs, i + 1, s, st)

MRep(n, count, s, st) ==
    LET once == IF AtMost(n, count) THEN <<>>
                ELSE SelectSeq(MNode(n.x, s, st), LAMBDA t : t.e > st.e)
        RECURSIVE Each(_)
        Each(ts) == IF ts = <<>> THEN <<>>
                    ELSE MRep(n, count + 1, s, Head(ts)) \o Each(Tail(ts))
        stop == IF count >= n.lo THEN <<st>> ELSE <<>>
    IN  IF n.greedy THEN Each(once) \o stop ELSE stop \o Each(once)

MNode(n, s, st) ==
    CASE n.k = "set" ->
            IF st.e < Len(s) /\ s[st.e + 1] \in n.cs
            THEN <<[st EXCEPT !.e = st.e + 1]>> ELSE <<>>
      [] n.k = "nset" ->
            IF st.e < Len(s) /\ s[st.e + 1] \notin n.cs
            THEN <<[st EXCEPT !.e = st.e + 1]>> ELSE <<>>
      [] n.k = "eol" ->
            IF st.e = Len(s) \/ s[st.e + 1] = "\n" THEN <<st>> ELSE <<>>
      [] n.k = "cat" -> MList(n.xs, 1, s, <<st>>)
      [] n.k = "alt" -> MAlt(n.xs, 1, s, st)
      [] n.k = "rep" -> MRep(n, 0, s, st)
      [] n.k = "grp" ->
            LET inner == MNode(n.x, s, st)
            IN  [i \in DOMAIN inner |->
                    [inner[i] EXCEPT !.c[n.id] = <<st.e, inner[i].e>>]]

NoMatch == [found |-> FALSE, b |-> -1, e |-> -1, c |-> NoCaps]

(* re.match(pattern, s): a match starting at the first character.          *)
ReMatchAt(re, s, pos) ==
    LET ms == MNode(re, s, [e |-> pos, c |-> NoCaps])
    IN  IF ms = <<>> THEN NoMatch
        ELSE [found |-> TRUE, b |-> pos, e |-> ms[1].e, c |-> ms[1].c]

ReMatch(re, s) == ReMatchAt(re, s, 0)

(* regex.search from pos: the leftmost position where a match starts.      *)
RECURSIVE ReSearch(_, _, _)
ReSearch(re, s, pos) ==
    IF pos > Len(s) THEN NoMatch
    ELSE LET m == ReMatchAt(re, s, pos)
         IN  IF m.found THEN m ELSE ReSearch(re, s, pos + 1)

(* re.finditer: the successive non-overlapping matches, left to right.     *)
(* (After an empty match the scan moves on by one character; none of the   *)
(* patterns below can match the empty string.)                             *)
RECURSIVE ReFindIter(_, _, _)
ReFindIter(re, s, pos) ==
    LET m == ReSearch(re, s, pos)
    IN  IF ~m.found THEN <<>>
        ELSE <<m>> \o ReFindIter(re, s, IF m.e > m.b THEN m.e ELSE m.e + 1)

(* match.group(id): the captured text, or None.                            *)
None == <<"None">>
Slice(s, b, e) == SubSeq(s, b + 1, e)
Group(m, s, id) == IF m.c[id] = NoSpan THEN None ELSE Slice(s, m.c[id][1], m.c[id][2])

-----------------------------------------------------------------------------
(* Shader._remove_comments                                                 *)

\* pattern = r"(\".*?\"|\'.*?\')|(/\*.*?\*/|//[^\r\n]*$)", re.MULTILINE|re.DOTALL
AnyChar == NSet({})
(* The pattern with "//.*$" for the line comment: under re.DOTALL the dot  *)
(* runs over the line breaks.                                              *)
CommentPattern_DotToEnd ==
    Alt(<< Grp("1", Alt(<< Cat(<<Lit("\""), LazyStar(AnyChar), Lit("\"")>>),
                           Cat(<<Lit("'"), LazyStar(AnyChar), Lit("'")>>) >>)),
           Grp("2", Alt(<< Cat(<<Lit("/"), Lit("*"), LazyStar(AnyChar), Lit("*"), Lit("/")>>),
                           Cat(<<Lit("/"), Lit("/"), Star(AnyChar), Eol>>) >>)) >>)

CommentPattern ==
    Alt(<< Grp("1", Alt(<< Cat(<<Lit("\""), LazyStar(AnyChar), Lit("\"")>>),
                           Cat(<<Lit("'"), LazyStar(AnyChar), Lit("'")>>) >>)),
           Grp("2", Alt(<< Cat(<<Lit("/"), Lit("*"), LazyStar(AnyChar), Lit("*"), Lit("/")>>),
                           Cat(<<Lit("/"), Lit("/"), Star(NSet({"\r", "\n"})), Eol>>) >>)) >>)

(* do_replace: a comment becomes "", a quoted string stays itself.         *)
do_replace(m, s) ==
    IF Group(m, s, "2") # None THEN <<>> ELSE Group(m, s, "1")

(* regex.sub(repl, s): the text between the matches is kept, each match is *)
(* replaced by repl(match).                                                *)
RECURSIVE ReSubFrom(_, _, _, _)
ReSubFrom(ms, i, s, pos) ==
    IF i > Len(ms) THEN Slice(s, pos, Len(s))
    ELSE Slice(s, pos, ms[i].b) \o do_replace(ms[i], s) \o ReSubFrom(ms, i + 1, s, ms[i].e)

remove_comments(s) == ReSubFrom(ReFindIter(CommentPattern, s, 0), 1, s, 0)

-----------------------------------------------------------------------------
(* Shader._gtypes, Shader.uniforms and Shader.attributes                   *)

gtypes ==
    ( <<"f", "l", "o", "a", "t">> :> "GL_FLOAT" )
 @@ ( <<"v", "e", "c", "2">> :> "GL_FLOAT_VEC2" )
 @@ ( <<"v", "e", "c", "3">> :> "GL_FLOAT_VEC3" )
 @@ ( <<"v", "e", "c", "4">> :> "GL_FLOAT_VEC4" )
 @@ ( <<"i", "n", "t">> :> "GL_INT" )
 @@ ( <<"i", "v", "e", "c", "2">> :> "GL_INT_VEC2" )
 @@ ( <<"i", "v", "e", "c", "3">> :> "GL_INT_VEC3" )
 @@ ( <<"i", "v", "e", "c", "4">> :> "GL_INT_VEC4" )
 @@ ( <<"b", "o", "o", "l">> :> "GL_BOOL" )
 @@ ( <<"b", "v", "e", "c", "2">> :> "GL_BOOL_VEC2" )
 @@ ( <<"b", "v", "e", "c", "3">> :> "GL_BOOL_VEC3" )
 @@ ( <<"b", "v", "e", "c", "4">> :> "GL_BOOL_VEC4" )
 @@ ( <<"m", "a", "t", "2">> :> "GL_FLOAT_MAT2" )
 @@ ( <<"m", "a", "t", "3">> :> "GL_FLOAT_MAT3" )
 @@ ( <<"m", "a", "t", "4">> :> "GL_FLOAT_MAT4" )
 @@ ( <<"s", "a", "m", "p", "l", "e", "r", "1", "D">> :> "GL_SAMPLER_1D" )
 @@ ( <<"s", "a", "m", "p", "l", "e", "r", "2", "D">> :> "GL_SAMPLER_2D" )

(* int(text) of a run of decimal digits, and '%d' % i for i >= 0.          *)
DigitValue(c) ==
    CASE c = "0" -> 0 [] c = "1" -> 1 [] c = "2" -> 2 [] c = "3" -> 3 [] c = "4" -> 4
      [] c = "5" -> 5 [] c = "6" -> 6 [] c = "7" -> 7 [] c = "8" -> 8 [] c = "9" -> 9

DigitChar(d) == <<"0", "1", "2", "3", "4", "5", "6", "7", "8", "9">>[d + 1]

RECURSIVE int(_)
int(ds) ==
    IF ds = <<>> THEN 0
    ELSE 10 * int(SubSeq(ds, 1, Len(ds) - 1)) + DigitValue(ds[Len(ds)])

RECURSIVE FormatD(_)
FormatD(i) ==
    IF i < 10 THEN <<DigitChar(i)>> ELSE FormatD(i \div 10) \o <<DigitChar(i % 10)>>

(* '%s[%d]' % (name, i)                                                    *)
IndexedName(name, i) == name \o <<"[">> \o FormatD(i) \o <<"]">>

\* \s*<qualifier>\s+(?P<type>\w+)\s+(?P<names>[\w,\[\] ]+);   under re.VERBOSE
re_type(qualifier) ==
    Cat(<< Star(Set(SpaceChars)), Word(qualifier),
           Plus(Set(SpaceChars)), Grp("type", Plus(Set(WordChars))),
           Plus(Set(SpaceChars)),
           Grp("names", Plus(Set(WordChars \cup {",", "[", "]", " "}))),
           Lit(";") >>)

\* (?P<name>\w+)\s*(\[(?P<size>\d+)\])?   under re.VERBOSE
re_names ==
    Cat(<< Grp("name", Plus(Set(WordChars))), Star(Set(SpaceChars)),
           Opt(Grp("2", Cat(<<Lit("["), Grp("size", Plus(Set(Digits))), Lit("]")>>))) >>)

Returned(v) == [exc |-> "none", msg |-> "", val |-> v]
Raised(e, m) == [exc |-> e, msg |-> m, val |-> <<>>]

(* The loop with range(1, size + 1).                                       *)
ArrayEntries_FromOne(name, size, gtype) == [i \in 1..size |-> <<IndexedName(name, i), gtype>>]

(* for i in range(size): append (name[i], gtype)                           *)
ArrayEntries(name, size, gtype) == [i \in 1..size |-> <<IndexedName(name, i - 1), gtype>>]

(* The inner loop without the test for a zero size: range(0) adds nothing. *)
RECURSIVE NamesLoop_EmptyExpansion(_, _, _, _, _)
NamesLoop_EmptyExpansion(ms, j, names, gtype, acc) ==
    IF j > Len(ms) THEN Returned(acc)
    ELSE LET name == Group(ms[j], names, "name")
             size == Group(ms[j], names, "size")
         IN  IF size = None
             THEN NamesLoop_EmptyExpansion(ms, j + 1, names, gtype, Append(acc, <<name, gtype>>))
             ELSE NamesLoop_EmptyExpansion(ms, j + 1, names, gtype,
                        acc \o [i \in 1..int(size) |-> <<IndexedName(name, i - 1), gtype>>])

(* The inner loop: one pass over the names of a declaration.               *)
RECURSIVE NamesLoop(_, _, _, _, _)
NamesLoop(ms, j, names, gtype, acc) ==
    IF j > Len(ms) THEN Returned(acc)
    ELSE LET name == Group(ms[j], names, "name")
             size == Group(ms[j], names, "size")
         IN  IF size = None
             THEN NamesLoop(ms, j + 1, names, gtype, Append(acc, <<name, gtype>>))
             ELSE IF int(size) = 0
                  THEN Raised("RuntimeError", "Size of uniform array cannot be zero")
                  ELSE NamesLoop(ms, j + 1, names, gtype,
                                 acc \o ArrayEntries(name, int(size), gtype))

(* The outer loop with _gtypes.get(type): a declaration of an unknown type *)
(* is passed over.                                                         *)
RECURSIVE DeclsLoop_SkipUnknown(_, _, _, _)
DeclsLoop_SkipUnknown(ms, i, text, acc) ==
    IF i > Len(ms) THEN Returned(acc)
    ELSE LET type == Group(ms[i], text, "type")
             names == Group(ms[i], text, "names")
         IN  IF type \notin DOMAIN gtypes
             THEN DeclsLoop_SkipUnknown(ms, i + 1, text, acc)
             ELSE LET r == NamesLoop(ReFindIter(re_names, names, 0), 1, names,
                                     gtypes[type], acc)
                  IN  IF r.exc # "none" THEN r
                      ELSE DeclsLoop_SkipUnknown(ms, i + 1, text, r.val)

(* The outer loop: one pass over the declarations found in the text.       *)
RECURSIVE DeclsLoop(_, _, _, _)
DeclsLoop(ms, i, text, acc) ==
    IF i > Len(ms) THEN Returned(acc)
    ELSE LET type == Group(ms[i], text, "type")
             names == Group(ms[i], text, "names")
         IN  IF type \notin DOMAIN gtypes
             THEN Raised("KeyError", "type")
             ELSE LET r == NamesLoop(ReFindIter(re_names, names, 0), 1, names,
                                     gtypes[type], acc)
                  IN  IF r.exc # "none" THEN r ELSE DeclsLoop(ms, i + 1, text, r.val)

Declared(qualifier, text) ==
    LET stripped == remove_comments(text)
    IN  DeclsLoop(ReFindIter(re_type(qualifier), stripped, 0), 1, stripped, <<>>)

KwUniform == <<"u", "n", "i", "f", "o", "r", "m">>
KwAttribute == <<"a", "t", "t", "r", "i", "b", "u", "t", "e">>

uniforms(text) == Declared(KwUniform, text)
attributes(text) == Declared(KwAttribute, text)

-----------------------------------------------------------------------------
(* Shader._parse_error                                                     *)

Dot == NSet({"\n"})
Number == Plus(Set(Digits))
OneSpace == Set(SpaceChars)

\* Nvidia:        (\d+)\((\d+)\):\s(.*)
re_nvidia ==
    Cat(<< Grp("1", Number), Lit("("), Grp("2", Number), Lit(")"), Lit(":"),
           OneSpace, Grp("3", Star(Dot)) >>)

\* ATI / Intel:   ERROR:\s(\d+):(\d+):\s(.*)
re_ati ==
    Cat(<< Word(<<"E", "R", "R", "O", "R">>), Lit(":"), OneSpace,
           Grp("1", Number), Lit(":"), Grp("2", Number), Lit(":"),
           OneSpace, Grp("3", Star(Dot)) >>)

\* Nouveau:       (\d+):(\d+)\((\d+)\):\s(.*)
re_nouveau ==
    Cat(<< Grp("1", Number), Lit(":"), Grp("2", Number), Lit("("),
           Grp("3", Number), Lit(")"), Lit(":"), OneSpace, Grp("4", Star(Dot)) >>)

(* _parse_error taking group 3, the column, of the Nouveau format.         *)
parse_error_Column(error) ==
    LET m1 == ReMatch(re_nvidia, error)
        m2 == ReMatch(re_ati, error)
        m3 == ReMatch(re_nouveau, error)
    IN  IF m1.found THEN Returned(<<int(Group(m1, error, "2")), Group(m1, error, "3")>>)
        ELSE IF m2.found THEN Returned(<<int(Group(m2, error, "2")), Group(m2, error, "3")>>)
        ELSE IF m3.found THEN Returned(<<int(Group(m3, error, "3")), Group(m3, error, "4")>>)
        ELSE Raised("ValueError", "Unknown GLSL error format")

parse_error(error) ==
    LET m1 == ReMatch(re_nvidia, error)
        m2 == ReMatch(re_ati, error)
        m3 == ReMatch(re_nouveau, error)
    IN  IF m1.found THEN Returned(<<int(Group(m1, error, "2")), Group(m1, error, "3")>>)
        ELSE IF m2.found THEN Returned(<<int(Group(m2, error, "2")), Group(m2, error, "3")>>)
        ELSE IF m3.found THEN Returned(<<int(Group(m3, error, "2")), Group(m3, error, "4")>>)
        ELSE Raised("ValueError", "Unknown GLSL error format")

-----------------------------------------------------------------------------
(* Shader._print_error                                                     *)

(* str.split(sep): the pieces between the separators, empty ones included. *)
RECURSIVE Split(_, _)
Split(s, sep) ==
    IF \A i \in DOMAIN s : s[i] # sep THEN <<s>>
    ELSE LET i == CHOOSE j \in DOMAIN s : s[j] = sep /\ \A k \in 1..(j - 1) : s[k] # sep
         IN  <<SubSeq(s, 1, i - 1)>> \o Split(SubSeq(s, i + 1, Len(s)), sep)

Max(a, b) == IF a >= b THEN a ELSE b
Min(a, b) == IF a <= b THEN a ELSE b

(* lines[start:end] for start >= 0                                         *)
PySlice(xs, start, end) ==
    LET stop == IF end < 0 THEN Max(0, Len(xs) + end) ELSE Min(end, Len(xs))
    IN  SubSeq(xs, start + 1, stop)

(* '%03d' % i for i >= 0                                                   *)
Format03d(i) ==
    LET d == FormatD(i)
    IN  IF Len(d) >= 3 THEN d ELSE [j \in 1..(3 - Len(d)) |-> "0"] \o d

(* ' %03d %s' % (number, line)                                             *)
NumberedLine(number, line) == <<" ">> \o Format03d(number) \o <<" ">> \o line

Ellipsis == <<" ", ".", ".", ".">>

(* The lines the for loop prints: the faulty line always, another line     *)
(* only when it is not empty.                                              *)
RECURSIVE PrintWindow(_, _, _, _)
PrintWindow(window, i, start, lineno) ==
    IF i >= Len(window) THEN <<>>
    ELSE LET line == window[i + 1]
             shown == IF (i + start) = lineno THEN <<NumberedLine(i + start, line)>>
                      ELSE IF Len(line) # 0 THEN <<NumberedLine(i + start, line)>>
                      ELSE <<>>
         IN  shown \o PrintWindow(window, i + 1, start, lineno)

WindowStart(lineno) == Max(0, lineno - 3)
WindowEnd(lines, lineno) == Min(Len(lines), lineno + 3)

(* What _print_error prints after its two heading lines and the blank one, *)
(* up to the closing blank line.                                           *)
print_error(text, error, lineno) ==
    LET lines == Split(text, "\n")
        start == WindowStart(lineno)
        end == WindowEnd(lines, lineno)
    IN  (IF start > 0 THEN <<Ellipsis>> ELSE <<>>)
        \o PrintWindow(PySlice(lines, start, end), 0, start, lineno)
        \o (IF end < Len(lines) THEN <<Ellipsis>> ELSE <<>>)

-----------------------------------------------------------------------------
(* The Shader object and the GL calls it makes                             *)

NoCode == None
NoHandle == -1
StringSource == <<"<", "s", "t", "r", "i", "n", "g", ">">>

(* open(path, 'rt').read(): the bytes of the file with every "\r\n" and     *)
(* every other "\r" turned into "\n".                                      *)
read(bytes) ==
    LET translated ==
            [i \in 1..Len(bytes) |->
                IF bytes[i] = "\n" /\ i > 1 /\ bytes[i - 1] = "\r" THEN ""
                ELSE IF bytes[i] = "\r" THEN "\n"
                ELSE bytes[i]]
    IN  SelectSeq(translated, LAMBDA c : c # "")

(* os.path.basename(path): what follows the last "/".                      *)
RECURSIVE basename(_)
basename(path) ==
    IF \A i \in DOMAIN path : path[i] # "/" THEN path
    ELSE basename(Tail(path))

(* One GL call: the function, the shader name passed (returned, for        *)
(* glCreateShader) and the shader names alive when it was made.            *)
Call(f, h, alive) == [f |-> f, h |-> h, alive |-> alive]

(* `if not self._code'                                                     *)
HasCode == code # NoCode /\ code # <<>>

(* Shader.__init__ with a valid target and no code; GLObject.__init__      *)
(* leaves the object without a handle and in need of an update.            *)
InitShader ==
    /\ code = NoCode
    /\ source = NoCode
    /\ handle = NoHandle
    /\ need_update = TRUE
    /\ gl_live = {}
    /\ gl_made = {}
    /\ gl_calls = <<>>
    /\ op = "__init__"
    /\ arg = <<>>
    /\ result = Returned(<<>>)

(* The code setter: a name of an existing file is read, anything else is   *)
(* the code itself.                                                        *)
SetCode(text, isfile, content) ==
    /\ code' = IF isfile THEN read(content) ELSE text
    /\ source' = IF isfile THEN basename(text) ELSE StringSource
    /\ need_update' = TRUE
    /\ op' = "code"
    /\ gl_calls' = <<>>
    /\ result' = Returned(<<>>)
    /\ UNCHANGED <<handle, gl_live, gl_made, arg>>

(* _create, no code: raises before any GL call.                            *)
CreateNoCode ==
    /\ ~HasCode
    /\ op' = "_create"
    /\ gl_calls' = <<>>
    /\ result' = Raised("RuntimeError", "No code has been given")
    /\ UNCHANGED <<code, source, handle, need_update, gl_live, gl_made, arg>>

(* _create, glCreateShader returns 0.                                      *)
CreateRefused ==
    /\ HasCode
    /\ handle <= 0
    /\ op' = "_create"
    /\ handle' = 0
    /\ gl_calls' = <<Call("glCreateShader", 0, gl_live)>>
    /\ result' = Raised("RuntimeError", "Cannot create shader object")
    /\ UNCHANGED <<code, source, need_update, gl_live, gl_made, arg>>

(* The name glCreateShader hands out: one it has not handed out before.    *)
FreshName == Cardinality(gl_made) + 1

(* The `if self._handle <= 0' step of _create when GL grants a name.       *)
Acquired ==
    IF handle <= 0
    THEN [h |-> FreshName, calls |-> <<Call("glCreateShader", FreshName, gl_live)>>,
          live |-> gl_live \cup {FreshName}, made |-> gl_made \cup {FreshName}]
    ELSE [h |-> handle, calls |-> <<>>, live |-> gl_live, made |-> gl_made]

(* glShaderSource, glCompileShader, glGetShaderiv on the handle.           *)
Submit(a) ==
    a.calls \o << Call("glShaderSource", a.h, a.live),
                  Call("glCompileShader", a.h, a.live),
                  Call("glGetShaderiv", a.h, a.live) >>

(* _create, the compile status is true.                                    *)
CreateCompiled ==
    /\ HasCode
    /\ LET a == Acquired
       IN  /\ handle' = a.h
           /\ gl_live' = a.live
           /\ gl_made' = a.made
           /\ gl_calls' = Submit(a)
    /\ op' = "_create"
    /\ result' = Returned(<<>>)
    /\ UNCHANGED <<code, source, need_update, arg>>

(* _create, the compile status is false: the info log is parsed, the error *)
(* printed with its context, and RuntimeError raised (ValueError when the  *)
(* log has no known format).                                               *)
CreateFailed(error) ==
    /\ HasCode
    /\ LET a == Acquired
       IN  /\ handle' = a.h
           /\ gl_live' = a.live
           /\ gl_made' = a.made
           /\ gl_calls' = Submit(a) \o <<Call("glGetShaderInfoLog", a.h, a.live)>>
    /\ op' = "_create"
    /\ LET parsed == parse_error(error)
       IN  result' = IF parsed.exc # "none" THEN parsed
                     ELSE [exc |-> "RuntimeError", msg |-> "Shader compilation error",
                           val |-> print_error(code, parsed.val[2], parsed.val[1] - 1)]
    /\ UNCHANGED <<code, source, need_update, arg>>

(* _create on a name GL no longer knows, with PyOpenGL's error checking    *)
(* on: glShaderSource raises.                                              *)
CreateInvalidName ==
    /\ HasCode
    /\ handle > 0
    /\ handle \notin gl_live
    /\ op' = "_create"
    /\ gl_calls' = <<Call("glShaderSource", handle, gl_live)>>
    /\ result' = Raised("GLError", "glShaderSource")
    /\ UNCHANGED <<code, source, handle, need_update, gl_live, gl_made, arg>>

(* _delete: glDeleteShader(self._handle).  On a name GL does not know the  *)
(* call raises when PyOpenGL's error checking is on.                       *)
Delete(checked) ==
    /\ op' = "_delete"
    /\ gl_calls' = <<Call("glDeleteShader", handle, gl_live)>>
    /\ gl_live' = gl_live \ {handle}
    /\ result' = IF checked /\ handle \notin gl_live
                 THEN Raised("GLError", "glDeleteShader") ELSE Returned(<<>>)
    /\ UNCHANGED <<code, source, handle, need_update, gl_made, arg>>

-----------------------------------------------------------------------------
(* Inputs of the extraction: declarations, and the ways to space them.     *)

MaxSize == 2
LargeSize == 11

Sizes == (0..MaxSize) \cup {LargeSize}

Scalar(n) == [n |-> n, arr |-> FALSE, size |-> 0]
Array(n, k) == [n |-> n, arr |-> TRUE, size |-> k]

NameLists ==
    {<<Scalar(<<"a">>)>>}
    \cup {<<Array(<<"a">>, k)>> : k \in Sizes}
    \cup {<<Scalar(<<"a">>), Scalar(<<"b">>)>>}
    \cup {<<Array(<<"b", "1">>, k), Scalar(<<"a">>)>> : k \in 0..MaxSize}
    \cup {<<Scalar(<<"a">>), Array(<<"a">>, k)>> : k \in 1..MaxSize}

TypeTokens == {<<"f", "l", "o", "a", "t">>, <<"v", "e", "c", "2">>, <<"f", "o", "o">>}

Qualifiers == {KwUniform, KwAttribute}

Decls == [q : Qualifiers, t : TypeTokens, items : NameLists]

(* Declarations that may stand before the one under test.                  *)
Prefixes ==
    {d \in Decls : d.items \in {<<Scalar(<<"a">>)>>, <<Array(<<"a">>, 0)>>,
                                 <<Array(<<"a">>, MaxSize)>>}}

Sources == {<<d>> : d \in Decls} \cup {<<p, d>> : p \in Prefixes, d \in Decls}

(* A style says what is written before the qualifier, between qualifier,   *)
(* type and names, around a comma, before "[", inside the brackets, before *)
(* ";", whether the size has a leading zero, and after each declaration.   *)
Style(lead, gap, comma, open, inner, close, pad, sep) ==
    [lead |-> lead, gap |-> gap, comma |-> comma, open |-> open, inner |-> inner,
     close |-> close, pad |-> pad, sep |-> sep]

(* Between declarations: nothing, a line comment or a block comment with a *)
(* declaration of an unknown type in it, or a line break.                  *)
LineComment ==
    <<" ", "/", "/", " ", "u", "n", "i", "f", "o", "r", "m", " ", "f", "o", "o", " ", "c", ";", "\n">>
BlockComment ==
    <<"/", "*", " ", "a", "t", "t", "r", "i", "b", "u", "t", "e", " ", "f", "o", "o", " ", "c", ";",
      "\n", "*", "/">>

Tight == Style(<<>>, <<" ">>, <<",">>, <<>>, <<>>, <<>>, FALSE, <<>>)
Plain == Style(<<>>, <<" ">>, <<",", " ">>, <<>>, <<>>, <<>>, FALSE, LineComment)
Wide == Style(<<" ", " ">>, <<" ", "\n">>, <<" ", ",", " ">>, <<" ">>, <<>>, <<" ">>, TRUE, BlockComment)
Inner == Style(<<>>, <<" ">>, <<",", " ">>, <<>>, <<" ">>, <<>>, FALSE, <<"\n">>)

Styles == {Tight, Plain, Wide, Inner}

RenderSize(k, st) == (IF st.pad THEN <<"0">> ELSE <<>>) \o FormatD(k)

RenderItem(it, st) ==
    IF it.arr
    THEN it.n \o st.open \o <<"[">> \o st.inner \o RenderSize(it.size, st) \o st.inner \o <<"]">>
    ELSE it.n

RECURSIVE RenderItems(_, _)
RenderItems(items, st) ==
    IF Len(items) = 1 THEN RenderItem(items[1], st)
    ELSE RenderItem(items[1], st) \o st.comma \o RenderItems(Tail(items), st)

RenderDecl(d, st) ==
    st.lead \o d.q \o st.gap \o d.t \o st.gap \o RenderItems(d.items, st) \o st.close \o <<";">>

RECURSIVE RenderSource(_, _)
RenderSource(ds, st) ==
    IF ds = <<>> THEN <<>>
    ELSE RenderDecl(ds[1], st) \o st.sep \o RenderSource(Tail(ds), st)

(* Shader(target, code): __init__ hands `given' to the code setter.  When  *)
(* `given' names a file the code is the file's content and the source its  *)
(* base name; otherwise the code is `given' and the source "<string>".     *)
InitWithCode(given, isfile, content) ==
    /\ code = IF isfile THEN read(content) ELSE given
    /\ source = IF isfile THEN basename(given) ELSE StringSource
    /\ handle = NoHandle
    /\ need_update = TRUE
    /\ gl_live = {}
    /\ gl_made = {}
    /\ gl_calls = <<>>
    /\ op = "code"
    /\ result = Returned(<<>>)

(* The path of the file a shader is constructed from.                      *)
FilePath == <<"d", "/", "f">>

(* A shader constructed with `text' itself, or with the path of a file     *)
(* whose bytes are `text'.                                                 *)
Holding(text) ==
    \E isfile \in BOOLEAN :
        InitWithCode(IF isfile THEN FilePath ELSE text, isfile, text)

InitExtract ==
    \E ds \in Sources, st \in Styles :
        /\ arg = [decls |-> ds, style |-> st]
        /\ Holding(RenderSource(ds, st))

(* Reading the uniforms property.                                          *)
Uniforms ==
    /\ op = "code"
    /\ op' = "uniforms"
    /\ result' = uniforms(code)
    /\ UNCHANGED <<code, source, handle, need_update, gl_live, gl_made, gl_calls, arg>>

(* Reading the attributes property.                                        *)
Attributes ==
    /\ op = "code"
    /\ op' = "attributes"
    /\ result' = attributes(code)
    /\ UNCHANGED <<code, source, handle, need_update, gl_live, gl_made, gl_calls, arg>>

NextExtract == Uniforms \/ Attributes

SpecExtract == InitExtract /\ [][NextExtract]_vars

-----------------------------------------------------------------------------
(* Inputs of the comment stripper: every text over a small alphabet.       *)

MaxStripLen == 5

StripChars == {"a", "\n", "\r", "/", "*", "\"", "'"}

StripTexts == UNION {[1..n -> StripChars] : n \in 0..MaxStripLen}

InitStrip ==
    \E text \in StripTexts :
        /\ arg = text
        /\ Holding(text)

(* code = self._remove_comments(self._code)                                *)
RemoveComments ==
    /\ op = "code"
    /\ op' = "_remove_comments"
    /\ result' = Returned(remove_comments(code))
    /\ UNCHANGED <<code, source, handle, need_update, gl_live, gl_made, gl_calls, arg>>

NextStrip == RemoveComments

SpecStrip == InitStrip /\ [][NextStrip]_vars

-----------------------------------------------------------------------------
(* The life of one Shader: code is set, the shader is created on the GPU   *)
(* and deleted, in any order.                                              *)

ShaderTexts ==
    { <<>>,
      <<"x">>,
      <<"x", "\n", "y", "\n", "\n", "z", "\n", "w">>,
      <<"a", "\r", "\n", "b", "\r", "c">>,
      <<"d", "/", "f">> }

InfoLogs ==
    { <<"0", "(", "2", ")", ":", " ", "e">>,
      <<"E", "R", "R", "O", "R", ":", " ", "0", ":", "5", ":", " ", "e">>,
      <<"0", ":", "1", "(", "3", ")", ":", " ", "e">>,
      <<"e">> }

Create ==
    \/ CreateNoCode
    \/ CreateRefused
    \/ CreateCompiled
    \/ \E error \in InfoLogs : CreateFailed(error)
    \/ CreateInvalidName

Next ==
    \/ \E text \in ShaderTexts, isfile \in BOOLEAN, content \in ShaderTexts :
            SetCode(text, isfile, content)
    \/ Create
    \/ \E checked \in BOOLEAN : Delete(checked)

Spec == InitShader /\ [][Next]_vars

-----------------------------------------------------------------------------
(* Inputs of _parse_error: diagnostics written in one of the three vendor  *)
(* formats, well formed or with one defect.                                *)

MaxLineNo == 12

Numbers == 0..MaxLineNo
ShaderIndices == {0, 1}
Columns == {3, 16}
Messages == {<<>>, <<"e">>, <<"e", ":", " ", "(", "x", ")">>}
Tails == {<<>>, <<"\n", "0", "(", "1", ")", ":", " ", "x">>}
Vendors == {"nvidia", "ati", "nouveau"}
Defects == {"none", "nospace", "nocolon", "noline", "lower", "indent", "junk"}

Diagnostics ==
    [vendor : Vendors, s : ShaderIndices, l : Numbers, c : Columns,
     m : Messages, tail : Tails, defect : Defects]

(* The text of a diagnostic.  A defect leaves out the blank after the last *)
(* colon, that colon, or the line number, writes "error" in lower case,    *)
(* starts the text with a blank, or puts a word before it.                 *)
RenderDiagnostic(d) ==
    LET line == IF d.defect = "noline" THEN <<>> ELSE FormatD(d.l)
        colon == IF d.defect = "nocolon" THEN <<>> ELSE <<":">>
        blank == IF d.defect = "nospace" THEN <<>> ELSE <<" ">>
        word == IF d.defect = "lower" THEN <<"e", "r", "r", "o", "r">>
                ELSE <<"E", "R", "R", "O", "R">>
        before == CASE d.defect = "indent" -> <<" ">>
                    [] d.defect = "junk" -> <<"x", " ">>
                    [] OTHER -> <<>>
        head == CASE d.vendor = "nvidia" ->
                        FormatD(d.s) \o <<"(">> \o line \o <<")">>
                  [] d.vendor = "ati" ->
                        word \o <<":", " ">> \o FormatD(d.s) \o <<":">> \o line
                  [] d.vendor = "nouveau" ->
                        FormatD(d.s) \o <<":">> \o line \o <<"(">> \o FormatD(d.c) \o <<")">>
    IN  before \o head \o colon \o blank \o d.m \o d.tail

InitParse ==
    \E d \in Diagnostics :
        /\ arg = d
        /\ Holding(<<"x">>)

(* lineno, mesg = self._parse_error(error)                                 *)
ParseError ==
    /\ op = "code"
    /\ op' = "_parse_error"
    /\ result' = parse_error(RenderDiagnostic(arg))
    /\ UNCHANGED <<code, source, handle, need_update, gl_live, gl_made, gl_calls, arg>>

NextParse == ParseError

SpecParse == InitParse /\ [][NextParse]_vars

-----------------------------------------------------------------------------
(* Inputs of _print_error: every code of lines "x" and empty lines, and    *)
(* every line number from one before the first line to one after the last. *)

MaxPrintLen == 8

PrintTexts == UNION {[1..n -> {"x", "\n"}] : n \in 0..MaxPrintLen}

InitPrint ==
    \E text \in PrintTexts :
        \E lineno \in -1..Len(Split(text, "\n")) :
            /\ arg = lineno
            /\ Holding(text)

(* self._print_error(mesg, lineno)                                         *)
PrintError ==
    /\ op = "code"
    /\ op' = "_print_error"
    /\ result' = Returned(print_error(code, <<"e">>, arg))
    /\ UNCHANGED <<code, source, handle, need_update, gl_live, gl_made, gl_calls, arg>>

NextPrint == PrintError

SpecPrint == InitPrint /\ [][NextPrint]_vars

-----------------------------------------------------------------------------
(* What the claims are measured against.                                   *)

(* The decimal text of an index, written out.                              *)
DecimalText(i) ==
    << <<"0">>, <<"1">>, <<"2">>, <<"3">>, <<"4">>, <<"5">>, <<"6">>, <<"7">>, <<"8">>,
       <<"9">>, <<"1", "0">>, <<"1", "1">>, <<"1", "2">>, <<"1", "3">>, <<"1", "4">>,
       <<"1", "5">> >>[i + 1]

(* The entries a declared name stands for: itself, or name[0]..name[N-1].  *)
EntriesOfItem(it, tag) ==
    IF it.arr
    THEN [i \in 1..it.size |-> <<it.n \o <<"[">> \o DecimalText(i - 1) \o <<"]">>, tag>>]
    ELSE << <<it.n, tag>> >>

RECURSIVE EntriesOfItems(_, _)
EntriesOfItems(items, tag) ==
    IF items = <<>> THEN <<>>
    ELSE EntriesOfItem(items[1], tag) \o EntriesOfItems(Tail(items), tag)

KnownType(d) == d.t \in DOMAIN gtypes
HasZeroSize(d) == \E i \in DOMAIN d.items : d.items[i].arr /\ d.items[i].size = 0
ValidDecl(d) == KnownType(d) /\ ~HasZeroSize(d)

(* The entries of the declarations of one qualifier, in source order.      *)
RECURSIVE EntriesOfDecls(_, _)
EntriesOfDecls(ds, q) ==
    IF ds = <<>> THEN <<>>
    ELSE (IF ds[1].q = q THEN EntriesOfItems(ds[1].items, gtypes[ds[1].t]) ELSE <<>>)
         \o EntriesOfDecls(Tail(ds), q)

Extracting == op \in {"uniforms", "attributes"}
Asked == IF op = "uniforms" THEN KwUniform ELSE KwAttribute

(* The declarations of the qualifier asked for.                            *)
Own == SelectSeq(arg.decls, LAMBDA d : d.q = Asked)

(* Sizes are written name[N], with nothing inside the brackets but digits. *)
BracketsTight == arg.style.inner = <<>>

ZeroSizeError == Raised("RuntimeError", "Size of uniform array cannot be zero")
UnknownTypeError == Raised("KeyError", "type")

(* C1: with well-formed declarations, each array T a[N], N >= 1, gives     *)
(* a[0]..a[N-1] of type T in ascending order, and the list follows the     *)
(* declarations in source order and the names left to right, repeated      *)
(* declarations repeated in the list; the same for uniforms and attributes.*)
C1_ArrayExpansionInSourceOrder ==
    (Extracting /\ BracketsTight /\ \A i \in DOMAIN Own : ValidDecl(Own[i]))
        => result = Returned(EntriesOfDecls(arg.decls, Asked))

C1_Witness ==
    /\ op = "attributes"
    /\ Len(Own) = 2
    /\ Own[1] = Own[2]
    /\ Own[1].items = <<Array(<<"a">>, MaxSize)>>
    /\ arg.style = Wide
    /\ result.exc = "none"
    /\ Len(result.val) = 2 * MaxSize

(* C3: a zero-size array in a declaration of a known type, after valid     *)
(* declarations only, makes uniforms and attributes alike raise the size   *)
(* error; no list is returned.                                             *)
C3_ZeroSizeRaises ==
    (/\ Extracting
     /\ BracketsTight
     /\ \E i \in DOMAIN Own :
            /\ KnownType(Own[i]) /\ HasZeroSize(Own[i])
            /\ \A j \in 1..(i - 1) : ValidDecl(Own[j]))
        => result = ZeroSizeError

C3_Witness ==
    /\ op = "attributes"
    /\ Len(Own) = 2
    /\ ValidDecl(Own[1])
    /\ Own[1].items = <<Array(<<"a">>, MaxSize)>>
    /\ Own[2].items = <<Array(<<"b", "1">>, 0), Scalar(<<"a">>)>>
    /\ KnownType(Own[2])
    /\ result = ZeroSizeError

(* C4 as claimed: a declaration with an unknown type makes the extraction  *)
(* raise the unknown-type error, whatever else the source declares.        *)
C4_UnknownTypeAlwaysRaisesUnknownType ==
    (Extracting /\ \E i \in DOMAIN Own : ~KnownType(Own[i]))
        => result = UnknownTypeError

(* C4 as amended: a declaration with an unknown type makes the extraction  *)
(* raise and return no list; the error is the unknown-type error, unless a *)
(* declaration before it has a zero-size array, which raises the size      *)
(* error first.                                                            *)
C4_UnknownTypeNeverReturnsList ==
    (Extracting /\ \E i \in DOMAIN Own : ~KnownType(Own[i]))
        => LET first == CHOOSE i \in DOMAIN Own :
                            ~KnownType(Own[i]) /\ \A j \in 1..(i - 1) : KnownType(Own[j])
               zeroBefore == \E j \in 1..(first - 1) : HasZeroSize(Own[j])
           IN  /\ result \in {UnknownTypeError, ZeroSizeError}
               /\ ~zeroBefore => result = UnknownTypeError
               /\ (zeroBefore /\ BracketsTight) => result = ZeroSizeError

C4_Witness ==
    /\ op = "uniforms"
    /\ Len(Own) = 2
    /\ ValidDecl(Own[1])
    /\ ~KnownType(Own[2])
    /\ result = UnknownTypeError

(* C5: one array declaration T a[N], N >= 1, gives exactly a[0]..a[N-1]    *)
(* however its parts are spaced.                                           *)
C5_ExpansionUnderAnySpacing ==
    (/\ Extracting
     /\ Len(arg.decls) = 1
     /\ Len(Own) = 1
     /\ KnownType(Own[1])
     /\ \E k \in Sizes \ {0} : Own[1].items = <<Array(<<"a">>, k)>>)
        => result = Returned(EntriesOfDecls(arg.decls, Asked))

-----------------------------------------------------------------------------
(* The comment stripper measured against a scan of the text.               *)

Least(S) == CHOOSE x \in S : \A y \in S : x <= y

(* The text without its comments, read left to right from position p: a    *)
(* quote with a closing quote after it opens a literal, kept up to that    *)
(* quote; "//" opens a comment that runs to the end of the line; "/*" with *)
(* a "*/" after it opens a comment that runs through that "*/".            *)
RECURSIVE WithoutComments(_, _)
WithoutComments(s, p) ==
    IF p > Len(s) THEN <<>>
    ELSE LET c == s[p]
             next == IF p < Len(s) THEN s[p + 1] ELSE ""
             closing == {j \in (p + 1)..Len(s) : s[j] = c}
             lineEnds == {j \in p..Len(s) : s[j] \in {"\n", "\r"}}
             blockEnds == {j \in (p + 2)..(Len(s) - 1) : s[j] = "*" /\ s[j + 1] = "/"}
         IN  IF c \in {"\"", "'"} /\ closing # {}
             THEN SubSeq(s, p, Least(closing)) \o WithoutComments(s, Least(closing) + 1)
             ELSE IF c = "/" /\ next = "/"
             THEN WithoutComments(s, IF lineEnds = {} THEN Len(s) + 1 ELSE Least(lineEnds))
             ELSE IF c = "/" /\ next = "*" /\ blockEnds # {}
             THEN WithoutComments(s, Least(blockEnds) + 2)
             ELSE <<c>> \o WithoutComments(s, p + 1)

Stripping == op = "_remove_comments"

(* C2: every line comment and every block comment that starts outside a    *)
(* quoted literal is removed, and every quoted literal is returned as it   *)
(* is.                                                                     *)
C2_CommentsRemovedLiteralsKept ==
    Stripping => result.val = WithoutComments(code, 1)

NewlineCount(s) == Cardinality({i \in DOMAIN s : s[i] = "\n"})

(* a is what is left of b after taking characters out of it.               *)
RECURSIVE LeftOf(_, _)
LeftOf(a, b) ==
    IF a = <<>> THEN TRUE
    ELSE IF b = <<>> THEN FALSE
    ELSE IF a[1] = b[1] THEN LeftOf(Tail(a), Tail(b))
    ELSE LeftOf(a, Tail(b))

SameLines(in, out) ==
    LET inl == Split(in, "\n")
        outl == Split(out, "\n")
    IN  /\ Len(inl) = Len(outl)
        /\ \A k \in DOMAIN inl : LeftOf(outl[k], inl[k])

(* A line break stands between a "/*" and a "*/" that follows it.          *)
BreakInsideBlock(s) ==
    \E i, j, k \in DOMAIN s :
        /\ i + 1 < j /\ j < k /\ k < Len(s)
        /\ s[i] = "/" /\ s[i + 1] = "*"
        /\ s[j] = "\n"
        /\ s[k] = "*" /\ s[k + 1] = "/"

(* C6 as claimed: the result has the line breaks of the input, and its     *)
(* k-th line is the k-th line of the input with text taken out.            *)
C6_LineStructurePreserved ==
    Stripping => SameLines(code, result.val)

(* C6 as amended: the stripper never adds a line break, and when no line   *)
(* break stands between a "/*" and a following "*/" the result has the     *)
(* line breaks of the input and its k-th line is the k-th line of the      *)
(* input with text taken out.                                              *)
C6_LineStructureOutsideBlocks ==
    Stripping =>
        /\ NewlineCount(result.val) <= NewlineCount(code)
        /\ ~BreakInsideBlock(code) => SameLines(code, result.val)

C6_Witness ==
    /\ Stripping
    /\ ~BreakInsideBlock(code)
    /\ result.val # code
    /\ NewlineCount(code) >= 1
    /\ \E i \in DOMAIN code : i < Len(code) /\ code[i] = "/" /\ code[i + 1] = "/"
    /\ SameLines(code, result.val)

-----------------------------------------------------------------------------
(* _parse_error measured against the shape of the three formats.           *)

AllDigits(s, i, j) == i <= j /\ j <= Len(s) /\ \A k \in i..j : s[k] \in Digits
At(s, i, c) == i <= Len(s) /\ s[i] = c
BlankAt(s, i) == i <= Len(s) /\ s[i] \in SpaceChars
StartsWith(s, w) == Len(s) >= Len(w) /\ SubSeq(s, 1, Len(w)) = w

(* N(L):<blank>                                                            *)
ShapeNvidia(s) ==
    \E i, j \in DOMAIN s :
        /\ AllDigits(s, 1, i) /\ At(s, i + 1, "(")
        /\ AllDigits(s, i + 2, j) /\ At(s, j + 1, ")") /\ At(s, j + 2, ":")
        /\ BlankAt(s, j + 3)

(* ERROR:<blank>S:L:<blank>                                                *)
ShapeAti(s) ==
    /\ StartsWith(s, <<"E", "R", "R", "O", "R", ":">>)
    /\ BlankAt(s, 7)
    /\ \E i, j \in DOMAIN s :
            /\ AllDigits(s, 8, i) /\ At(s, i + 1, ":")
            /\ AllDigits(s, i + 2, j) /\ At(s, j + 1, ":")
            /\ BlankAt(s, j + 2)

(* S:L(C):<blank>                                                          *)
ShapeNouveau(s) ==
    \E i, j, k \in DOMAIN s :
        /\ AllDigits(s, 1, i) /\ At(s, i + 1, ":")
        /\ AllDigits(s, i + 2, j) /\ At(s, j + 1, "(")
        /\ AllDigits(s, j + 2, k) /\ At(s, k + 1, ")") /\ At(s, k + 2, ":")
        /\ BlankAt(s, k + 3)

WellFormed(d) == d.defect = "none" \/ (d.defect = "lower" /\ d.vendor # "ati")

UnknownFormatError == Raised("ValueError", "Unknown GLSL error format")

(* C7: a diagnostic in any of the three formats gives its line number L    *)
(* and its message; a text in none of the three shapes raises the          *)
(* unknown-format error.                                                   *)
C7_DiagnosticLineNumber ==
    op = "_parse_error" =>
        LET text == RenderDiagnostic(arg)
        IN  /\ WellFormed(arg) => result = Returned(<<arg.l, arg.m>>)
            /\ (~ShapeNvidia(text) /\ ~ShapeAti(text) /\ ~ShapeNouveau(text))
                    => result = UnknownFormatError
            /\ result.exc \in {"none", "ValueError"}

C7_Witness ==
    /\ op = "_parse_error"
    /\ arg.vendor = "nouveau"
    /\ arg.defect = "none"
    /\ arg.l = MaxLineNo
    /\ arg.c = 16
    /\ arg.tail # <<>>
    /\ result = Returned(<<MaxLineNo, arg.m>>)

-----------------------------------------------------------------------------
(* _print_error measured against the window of three lines either side.    *)

(* The line numbers printed, read back from the printed lines.             *)
PrintedNumbers(out) ==
    LET rows == SelectSeq(out, LAMBDA row : row # Ellipsis)
    IN  [i \in DOMAIN rows |-> int(SubSeq(rows[i], 2, 4))]

(* C10: for a faulty line L of a code of n lines, 0 <= L < n, the lines    *)
(* max(0, L-3) .. min(n-1, L+3) are printed, each with its number, with    *)
(* " ..." before them exactly when the first is not line 0 and after them  *)
(* exactly when the last is not line n-1.                                  *)
C10_WindowOfThreeEitherSide ==
    LET n == Len(Split(code, "\n"))
        first == Max(0, arg - 3)
        last == Min(n - 1, arg + 3)
        out == result.val
    IN  (op = "_print_error" /\ 0 <= arg /\ arg < n) =>
            /\ PrintedNumbers(out) = [i \in 1..(last - first + 1) |-> first + i - 1]
            /\ (out[1] = Ellipsis) <=> (first > 0)
            /\ (out[Len(out)] = Ellipsis) <=> (last < n - 1)

-----------------------------------------------------------------------------
(* The GL calls of a Shader measured against the life of its handle.       *)

(* C8: glDeleteShader is called only on a shader name that is alive, so a  *)
(* name is deleted at most once and a delete without a handle calls        *)
(* nothing.                                                                *)
C8_DeleteOnlyHeldHandle ==
    \A i \in DOMAIN gl_calls :
        gl_calls[i].f = "glDeleteShader" => gl_calls[i].h \in gl_calls[i].alive

(* C9: glCreateShader is called only when the shader has no name alive,    *)
(* glShaderSource and glCompileShader only on a name that is alive, and a  *)
(* refused name ends the creation before any source is submitted.          *)
C9_CreateUsesOnlyHeldHandle ==
    /\ \A i \in DOMAIN gl_calls :
            /\ gl_calls[i].f = "glCreateShader" => gl_calls[i].alive = {}
            /\ gl_calls[i].f \in {"glShaderSource", "glCompileShader"}
                    => gl_calls[i].h \in gl_calls[i].alive
    /\ (op = "_create" /\ result = Raised("RuntimeError", "Cannot create shader object"))
            => \A i \in DOMAIN gl_calls : gl_calls[i].f # "glShaderSource"

=============================================================================
